---- MODULE Spec2Model ----
(***************************************************************************)
(* prun (parallel run): main.go.                                           *)
(*                                                                         *)
(* One Producer goroutine (readInput) reads stdin a byte at a time and     *)
(* hands one RunJob per line-feed to workerCount Worker goroutines         *)
(* (runWorker/run) over the unbuffered jobChan.  The Workers report on the *)
(* unbuffered outChan and doneChan, which the main goroutine (the          *)
(* Collector) drains in a select loop until doneCnt reaches totalCnt.      *)
(*                                                                         *)
(* A send on an unbuffered channel completes together with the matching    *)
(* receive, so each hand-off is one action of sender and receiver.  The    *)
(* Producer's reads up to the next line-feed touch only its own buffer and *)
(* are one action.                                                         *)
(* Strings are sequences of one-character strings.  Stdin is taken to be   *)
(* delivered without read errors.                                          *)
(***************************************************************************)
EXTENDS Integers, Sequences, FiniteSets, TLC

VARIABLES
    args,        \* os.Args[2:], the command template
    workerCount, \* strconv.Atoi(os.Args[1])
    input,       \* the bytes of stdin
    pos,         \* number of bytes of stdin consumed by readInput
    buffer,      \* readInput: buffer
    count,       \* readInput: count
    rj,          \* readInput: rj, a pointer into heap (0 = nil)
    ppc,         \* readInput: position in the code
    heap,        \* the RunJob structures allocated by new(RunJob)
    wpc,         \* runWorker/run: position in the code, per worker id
    wjob,        \* runWorker: job, a pointer into heap (0 = nil)
    werr,        \* run: err of cmd.CombinedOutput()
    doneCnt,     \* main: doneCnt
    errCnt,      \* main: errCnt
    totalCnt,    \* main: totalCnt, written by readInput through *totalCnt
    cpc,         \* main: position in the code
    stdout,      \* what main has printed from outChan
    exitStatus,  \* the exit status of the process (-1 while it runs)
    recvLog,     \* history: <<worker, job>> for every receive on jobChan
    doneVals,    \* history: per job, the values sent on doneChan
    outCnt,      \* history: per job, the number of messages sent on outChan
    spawned,     \* history: per job, the number of subprocesses started
    running,     \* history: the jobs whose subprocess is executing
    failed       \* history: the jobs whose subprocess failed

vars == <<args, workerCount, input, pos, buffer, count, rj, ppc, heap, wpc,
          wjob, werr, doneCnt, errCnt, totalCnt, cpc, stdout, exitStatus,
          recvLog, doneVals, outCnt, spawned, running, failed>>

producerVars == <<pos, buffer, count, rj, ppc>>
collectorVars == <<doneCnt, errCnt, cpc, stdout, exitStatus>>
workerVars == <<wpc, wjob, werr>>
histVars == <<recvLog, doneVals, outCnt, spawned, running, failed>>
paramVars == <<args, workerCount, input>>

----------------------------------------------------------------------------
(* Bounds of the model. *)

MaxInput == 4
MaxWorkers == 2
MaxFailures == 256

(* Program constants. *)

\* math.MinInt32 in place of math.MaxInt32
MinInt32 == -2147483647 - 1

MaxInt32 == 2147483647

LF == "\n"
CR == "\r"
SP == " "
Placeholder == <<"{", "}">>

Bytes == {"a", SP, CR, LF}

\* command templates: ["e"], ["e", "{}"], ["e", "{}", "{}"], ["x{}", "{}"]
Templates ==
    { <<<<"e">>>>,
      <<<<"e">>, Placeholder>>,
      <<<<"e">>, Placeholder, Placeholder>>,
      <<<<"x", "{", "}">>, Placeholder>> }

RECURSIVE SeqsUpTo(_, _)
SeqsUpTo(S, n) ==
    IF n = 0 THEN {<<>>}
    ELSE LET shorter == SeqsUpTo(S, n - 1)
         IN  shorter \cup {Append(s, x) : s \in shorter, x \in S}

Inputs == SeqsUpTo(Bytes, MaxInput)

----------------------------------------------------------------------------
(* Pure functions. *)

\* unicode.IsSpace on the bytes that occur
IsSpace(b) == b \in {SP, CR, LF, "\t"}

RECURSIVE TrimLeft(_)
TrimLeft(s) ==
    IF s # <<>> /\ IsSpace(Head(s)) THEN TrimLeft(Tail(s)) ELSE s

RECURSIVE TrimRight(_)
TrimRight(s) ==
    IF s # <<>> /\ IsSpace(s[Len(s)])
    THEN TrimRight(SubSeq(s, 1, Len(s) - 1))
    ELSE s

\* strings.TrimSpace
TrimSpace(s) == TrimRight(TrimLeft(s))

\* strings.Replace(s, "\r", "", -1)
ReplaceCR(s) == SelectSeq(s, LAMBDA b : b # CR)

\* the argument without strings.TrimSpace
MakeArgUntrimmed(buf) == ReplaceCR(buf)

\* rj.Arg = strings.Replace(strings.TrimSpace(buffer.String()), "\r", "", -1)
MakeArg(buf) == ReplaceCR(TrimSpace(buf))

\* a loop that stops after the first replacement
SubstituteFirst(cmdData, arg) ==
    [i \in 1..Len(cmdData) |->
        IF /\ cmdData[i] = Placeholder
           /\ \A k \in 1..(i - 1) : cmdData[k] # Placeholder
        THEN arg
        ELSE cmdData[i]]

\* the loop of run that replaces the replacement token
Substitute(cmdData, arg) ==
    [i \in 1..Len(cmdData) |->
        IF cmdData[i] = Placeholder THEN arg ELSE cmdData[i]]

RECURSIVE argsToStr(_)
argsToStr(a) ==
    IF a = <<>> THEN <<>>
    ELSE IF Len(a) = 1 THEN a[1]
    ELSE a[1] \o <<SP>> \o argsToStr(Tail(a))

\* fmt.Sprintf("[%d] %s: %s\n", id, argsToStr(job.CmdData...), err or out)
Format(id, cmdData, text) ==
    [id |-> id, cmd |-> argsToStr(cmdData), text |-> text]

\* a failure reported as success
DoneValZero(err) == 0

\* the value run sends on DoneChan after the subprocess
DoneVal(err) == IF err THEN 1 ELSE 0

\* a wait loop that stops one completion short
LoopCondShort(d, t) == d + 1 < t

\* for doneCnt < totalCnt
LoopCond(d, t) == d < t

\* a start loop that runs once too often
WorkerIdsInclusive(n) == 0..n

\* for i := 0; i < workerCount; i++ { go runWorker(i, jobChan) }
WorkerIds(n) == 0..(n - 1)

\* if len(job.Arg) < 1, in runWorker
IsBlank(arg) == Len(arg) < 1

\* a blank argument that falls through to run(id, job)
AfterBlankFallThrough == "run"

\* runWorker: continue after reporting a blank argument
AfterBlank == "recv"

\* an error branch without its message on OutChan
AfterExecNoMessage(err) == IF err THEN "sendDone" ELSE "sendOut"

\* an error branch that panics
AfterExecPanic(err) == IF err THEN "panic" ELSE "sendOut"

\* run: both branches on err send on OutChan first, then on DoneChan
AfterExec(err) == "sendOut"

\* a send that is repeated
AfterSendAgain == "send"

\* readInput: buffer.Reset(); continue after jobChan<- rj
AfterSend == "read"

\* os.Exit(errCnt), where the exit status of a process has 8 bits
ExitStatus(code) == code % 256

Workers == DOMAIN wpc

Running == cpc \notin {"done", "fatal"}

----------------------------------------------------------------------------
Init ==
    /\ args \in Templates
    /\ workerCount \in 0..MaxWorkers
    /\ input \in Inputs
    /\ pos = 0
    /\ buffer = <<>>
    /\ count = 0
    /\ rj = 0
    /\ ppc = "read"
    /\ heap = <<>>
    /\ wpc = [w \in WorkerIds(workerCount) |-> "recv"]
    /\ wjob = [w \in WorkerIds(workerCount) |-> 0]
    /\ werr = [w \in WorkerIds(workerCount) |-> FALSE]
    /\ doneCnt = 0
    /\ errCnt = 0
    /\ totalCnt = MaxInt32
    /\ cpc = "check"
    /\ stdout = <<>>
    /\ exitStatus = -1
    /\ recvLog = <<>>
    /\ doneVals = <<>>
    /\ outCnt = <<>>
    /\ spawned = <<>>
    /\ running = {}
    /\ failed = {}

----------------------------------------------------------------------------
(* readInput *)

\* a read loop that takes io.EOF after unterminated bytes for an end of line
RECURSIVE ReadLoopFlush(_, _, _)
ReadLoopFlush(in, p, buf) ==
    IF p = Len(in) THEN [pos |-> p, buffer |-> buf, eof |-> buf = <<>>]
    ELSE IF in[p + 1] = LF THEN [pos |-> p + 1, buffer |-> buf, eof |-> FALSE]
    ELSE ReadLoopFlush(in, p + 1, Append(buf, in[p + 1]))

\* the read loop up to the next '\n' or to io.EOF: every other byte is
\* written to buffer
RECURSIVE ReadLoop(_, _, _)
ReadLoop(in, p, buf) ==
    IF p = Len(in) THEN [pos |-> p, buffer |-> buf, eof |-> TRUE]
    ELSE IF in[p + 1] = LF THEN [pos |-> p + 1, buffer |-> buf, eof |-> FALSE]
    ELSE ReadLoop(in, p + 1, Append(buf, in[p + 1]))

\* os.Stdin.Read returns io.EOF: *totalCnt = count; return
ReadEOF ==
    /\ Running
    /\ ppc = "read"
    /\ LET r == ReadLoop(input, pos, buffer)
       IN  /\ r.eof
           /\ pos' = r.pos
           /\ buffer' = r.buffer
    /\ totalCnt' = count
    /\ ppc' = "returned"
    /\ UNCHANGED <<count, rj, heap>>
    /\ UNCHANGED <<paramVars, workerVars, collectorVars, histVars>>

\* a read loop that also writes the running count, *totalCnt = count, at
\* every line
ReadLinePublish ==
    /\ Running
    /\ ppc = "read"
    /\ LET r == ReadLoop(input, pos, buffer)
       IN  /\ ~r.eof
           /\ pos' = r.pos
           /\ buffer' = r.buffer
           /\ heap' = Append(heap, [Arg |-> MakeArg(r.buffer),
                                    OutChan |-> "outChan",
                                    DoneChan |-> "doneChan",
                                    CmdData |-> args])
    /\ count' = count + 1
    /\ totalCnt' = count + 1
    /\ rj' = Len(heap) + 1
    /\ ppc' = "send"
    /\ doneVals' = Append(doneVals, <<>>)
    /\ outCnt' = Append(outCnt, 0)
    /\ spawned' = Append(spawned, 0)
    /\ UNCHANGED <<recvLog, running, failed>>
    /\ UNCHANGED <<paramVars, workerVars, collectorVars>>

\* '\n': count++, build the RunJob, and block on jobChan<- rj
ReadLine ==
    /\ Running
    /\ ppc = "read"
    /\ LET r == ReadLoop(input, pos, buffer)
       IN  /\ ~r.eof
           /\ pos' = r.pos
           /\ buffer' = r.buffer
           /\ heap' = Append(heap, [Arg |-> MakeArg(r.buffer),
                                    OutChan |-> "outChan",
                                    DoneChan |-> "doneChan",
                                    CmdData |-> args])
    /\ count' = count + 1
    /\ rj' = Len(heap) + 1
    /\ ppc' = "send"
    /\ doneVals' = Append(doneVals, <<>>)
    /\ outCnt' = Append(outCnt, 0)
    /\ spawned' = Append(spawned, 0)
    /\ UNCHANGED <<totalCnt, recvLog, running, failed>>
    /\ UNCHANGED <<paramVars, workerVars, collectorVars>>

\* jobChan<- rj meets job := <-jobChan of worker w; then buffer.Reset() in
\* readInput, and the test of len(job.Arg) in runWorker
HandOff(w) ==
    /\ Running
    /\ ppc = "send"
    /\ wpc[w] = "recv"
    /\ wjob' = [wjob EXCEPT ![w] = rj]
    /\ wpc' = [wpc EXCEPT ![w] =
                 IF IsBlank(heap[rj].Arg) THEN "sendDoneBlank" ELSE "run"]
    /\ recvLog' = Append(recvLog, <<w, rj>>)
    /\ buffer' = <<>>
    /\ ppc' = AfterSend
    /\ UNCHANGED <<pos, count, rj, heap, werr, totalCnt>>
    /\ UNCHANGED <<paramVars, collectorVars>>
    /\ UNCHANGED <<doneVals, outCnt, spawned, running, failed>>

----------------------------------------------------------------------------
(* run *)

\* run with rj.CmdData = os.Args[2:] in readInput, a slice of the program
\* arguments instead of a copy: the replacement writes into os.Args
RunStartAliased(w) ==
    /\ Running
    /\ wpc[w] = "run"
    /\ LET job == heap[wjob[w]]
       IN  /\ Len(job.CmdData) >= 1
           /\ Len(job.Arg) >= 1
           /\ heap' = [heap EXCEPT ![wjob[w]].CmdData =
                          Substitute(job.CmdData, job.Arg)]
           /\ args' = Substitute(args, job.Arg)
           /\ spawned' = [spawned EXCEPT ![wjob[w]] = @ + 1]
           /\ running' = running \cup {wjob[w]}
           /\ wpc' = [wpc EXCEPT ![w] = "exec"]
    /\ UNCHANGED <<wjob, werr, totalCnt, recvLog, doneVals, outCnt, failed>>
    /\ UNCHANGED <<workerCount, input, producerVars, collectorVars>>

\* the two early returns, the substitution, and the start of the subprocess
RunStart(w) ==
    /\ Running
    /\ wpc[w] = "run"
    /\ LET job == heap[wjob[w]]
       IN  IF Len(job.CmdData) < 1 \/ Len(job.Arg) < 1
           THEN /\ wpc' = [wpc EXCEPT ![w] = "sendDoneNoop"]
                /\ UNCHANGED <<heap, spawned, running>>
           ELSE /\ heap' = [heap EXCEPT ![wjob[w]].CmdData =
                               Substitute(job.CmdData, job.Arg)]
                /\ spawned' = [spawned EXCEPT ![wjob[w]] = @ + 1]
                /\ running' = running \cup {wjob[w]}
                /\ wpc' = [wpc EXCEPT ![w] = "exec"]
    /\ UNCHANGED <<wjob, werr, totalCnt, recvLog, doneVals, outCnt, failed>>
    /\ UNCHANGED <<paramVars, producerVars, collectorVars>>

\* cmd.CombinedOutput() returns, with err # nil or err = nil
ExecReturn(w) ==
    /\ Running
    /\ wpc[w] = "exec"
    /\ \E e \in BOOLEAN :
        /\ werr' = [werr EXCEPT ![w] = e]
        /\ failed' = IF e THEN failed \cup {wjob[w]} ELSE failed
        /\ wpc' = [wpc EXCEPT ![w] = AfterExec(e)]
    /\ running' = running \ {wjob[w]}
    /\ UNCHANGED <<wjob, heap, totalCnt, recvLog, doneVals, outCnt, spawned>>
    /\ UNCHANGED <<paramVars, producerVars, collectorVars>>

----------------------------------------------------------------------------
(* main: the wait loop *)

\* for doneCnt < totalCnt; os.Exit(errCnt) when it is false
LoopTest ==
    /\ cpc = "check"
    /\ IF LoopCond(doneCnt, totalCnt)
       THEN cpc' = "select" /\ exitStatus' = exitStatus
       ELSE cpc' = "done" /\ exitStatus' = ExitStatus(errCnt)
    /\ UNCHANGED <<doneCnt, errCnt, stdout, heap, totalCnt>>
    /\ UNCHANGED <<paramVars, producerVars, workerVars, histVars>>

\* case val := <-doneChan, meeting job.DoneChan<- of worker w
RecvDone(w) ==
    /\ cpc = "select"
    /\ wpc[w] \in {"sendDoneBlank", "sendDoneNoop", "sendDone"}
    /\ LET val == IF wpc[w] = "sendDone" THEN DoneVal(werr[w]) ELSE 0
       IN  /\ errCnt' = errCnt + val
           /\ doneCnt' = doneCnt + 1
           /\ doneVals' = [doneVals EXCEPT ![wjob[w]] = Append(@, val)]
    /\ wpc' = [wpc EXCEPT ![w] =
                 IF wpc[w] = "sendDoneBlank" THEN AfterBlank ELSE "recv"]
    /\ cpc' = "check"
    /\ UNCHANGED <<stdout, exitStatus, wjob, werr, heap, totalCnt>>
    /\ UNCHANGED <<recvLog, outCnt, spawned, running, failed>>
    /\ UNCHANGED <<paramVars, producerVars>>

\* case log := <-outChan; fmt.Print(log), meeting job.OutChan<- of worker w
RecvOut(w) ==
    /\ cpc = "select"
    /\ wpc[w] = "sendOut"
    /\ stdout' = Append(stdout,
                    Format(w, heap[wjob[w]].CmdData,
                           IF werr[w] THEN "err" ELSE "out"))
    /\ outCnt' = [outCnt EXCEPT ![wjob[w]] = @ + 1]
    /\ wpc' = [wpc EXCEPT ![w] = "sendDone"]
    /\ cpc' = "check"
    /\ UNCHANGED <<doneCnt, errCnt, exitStatus, wjob, werr, heap, totalCnt>>
    /\ UNCHANGED <<recvLog, doneVals, spawned, running, failed>>
    /\ UNCHANGED <<paramVars, producerVars>>

\* the Go runtime finds every goroutine blocked: main in select with no
\* sender, the workers on jobChan with no sender; it aborts the process
\* with exit status 2
AllAsleep ==
    /\ cpc = "select"
    /\ \A w \in Workers : wpc[w] = "recv"
    /\ \/ ppc = "returned"
       \/ ppc = "send" /\ Workers = {}
    /\ cpc' = "fatal"
    /\ exitStatus' = 2
    /\ UNCHANGED <<doneCnt, errCnt, stdout, heap, totalCnt>>
    /\ UNCHANGED <<paramVars, producerVars, workerVars, histVars>>

----------------------------------------------------------------------------
Producer == ReadEOF \/ ReadLine

Worker(w) == HandOff(w) \/ RunStart(w) \/ ExecReturn(w)

Collector == LoopTest \/ (\E w \in Workers : RecvDone(w) \/ RecvOut(w))

Next ==
    \/ ReadEOF
    \/ ReadLine
    \/ \E w \in Workers : HandOff(w)
    \/ \E w \in Workers : RunStart(w)
    \/ \E w \in Workers : ExecReturn(w)
    \/ LoopTest
    \/ \E w \in Workers : RecvDone(w)
    \/ \E w \in Workers : RecvOut(w)
    \/ AllAsleep

Spec == Init /\ [][Next]_vars

\* The Go scheduler runs every goroutine that can run, and every subprocess
\* finishes.
Fairness ==
    /\ WF_vars(Producer)
    /\ \A w \in WorkerIds(MaxWorkers) : WF_vars(w \in Workers /\ Worker(w))
    /\ WF_vars(Collector)
    /\ WF_vars(AllAsleep)

FairSpec == Spec /\ Fairness

----------------------------------------------------------------------------
(* The end of a run in which every job failed. *)

\* the input of f lines "a"
FailingInput(f) == [i \in 1..(2 * f) |-> IF i % 2 = 1 THEN "a" ELSE LF]

\* prun 1 e on f lines "a", one worker, every subprocess failed: the state
\* in which readInput has returned, the f completions are counted, and main
\* is about to test its loop
FailingRun(f) ==
    /\ args = <<<<"e">>>>
    /\ workerCount = 1
    /\ input = FailingInput(f)
    /\ pos = 2 * f
    /\ buffer = <<>>
    /\ count = f
    /\ rj = f
    /\ ppc = "returned"
    /\ heap = [j \in 1..f |-> [Arg |-> <<"a">>,
                               OutChan |-> "outChan",
                               DoneChan |-> "doneChan",
                               CmdData |-> <<<<"e">>>>]]
    /\ wpc = [w \in WorkerIds(1) |-> "recv"]
    /\ wjob = [w \in WorkerIds(1) |-> f]
    /\ werr = [w \in WorkerIds(1) |-> f >= 1]
    /\ doneCnt = f
    /\ errCnt = f
    /\ totalCnt = f
    /\ cpc = "check"
    /\ stdout = [j \in 1..f |-> Format(0, <<<<"e">>>>, "err")]
    /\ exitStatus = -1
    /\ recvLog = [j \in 1..f |-> <<0, j>>]
    /\ doneVals = [j \in 1..f |-> <<1>>]
    /\ outCnt = [j \in 1..f |-> 1]
    /\ spawned = [j \in 1..f |-> 1]
    /\ running = {}
    /\ failed = 1..f

ExitInit == \E f \in 0..MaxFailures : FailingRun(f)

ExitNext == LoopTest

ExitSpec == ExitInit /\ [][ExitNext]_vars

\* under Spec, the runs of FailingInput(f) that end with f failures counted
\* end in FailingRun(f)
FailingRunIsTheEnd ==
    \A f \in 0..MaxInput :
        ( /\ args = <<<<"e">>>>
          /\ workerCount = 1
          /\ input = FailingInput(f)
          /\ ppc = "returned"
          /\ cpc = "check"
          /\ errCnt = f ) => FailingRun(f)

\* under Spec, FailingRun(2) is reached
FailingRunReached == FailingRun(2)

----------------------------------------------------------------------------
(* The lines of stdin, for the statements below. *)

RECURSIVE SplitLines(_, _)
SplitLines(s, cur) ==
    IF s = <<>> THEN <<>>
    ELSE IF Head(s) = LF THEN <<cur>> \o SplitLines(Tail(s), <<>>)
    ELSE SplitLines(Tail(s), Append(cur, Head(s)))

\* the newline-terminated lines of the input, in order
InputLines == SplitLines(input, <<>>)

\* K, the number of newline-terminated lines
K == Len(InputLines)

Jobs == 1..Len(heap)

\* job j has been received by a worker that has not yet finished with it
InProgress(j) == \E w \in Workers : wjob[w] = j /\ wpc[w] # "recv"

\* a completion signal for job j has been received by the Collector
Reported(j) == Len(doneVals[j]) >= 1

----------------------------------------------------------------------------
\* C1: once the Producer has recorded totalCnt at end-of-input and that many
\* completion signals have been received, the Collector leaves its wait loop
\* (with at least one worker, under fair scheduling).
C1_Termination ==
    (workerCount >= 1 /\ ppc = "returned" /\ doneCnt = totalCnt)
        ~> (cpc = "done")

\* C2: the Producer creates exactly K jobs for K newline-terminated lines, and
\* whenever the Collector has terminated it has received exactly K completion
\* signals: doneCnt = totalCnt = K.
C2_CompletionAccounting ==
    /\ Len(heap) = count
    /\ count <= K
    /\ ppc = "returned" => count = K
    /\ cpc = "done" =>
        /\ ppc = "returned"
        /\ doneCnt = K
        /\ totalCnt = K
        /\ \A j \in Jobs : Len(doneVals[j]) = 1

C2_Witness ==
    /\ cpc = "done"
    /\ workerCount >= 2
    /\ K >= 2
    /\ \E i, k \in DOMAIN recvLog : recvLog[i][1] # recvLog[k][1]

\* C3: whenever the Collector terminates, errCnt, the exit status, is the
\* number of jobs whose subprocess failed.
C3_ExitCode ==
    cpc = "done" => errCnt = Cardinality(failed)

C3_Witness ==
    /\ cpc = "done"
    /\ errCnt = 1
    /\ \E j \in Jobs : spawned[j] = 1 /\ j \notin failed

\* C4: the Collector never terminates before the Producer has reached
\* end-of-input and written the job count into totalCnt.
C4_NoEarlyExit ==
    cpc = "done" => (ppc = "returned" /\ totalCnt = count)

\* every job handed out so far has reported, the Producer has not finished,
\* and the Collector has tested its loop and stays in it
C4_Witness ==
    /\ cpc = "select"
    /\ ppc = "read"
    /\ count >= 1
    /\ doneCnt = count
    /\ totalCnt = MaxInt32

\* C5: the number of subprocesses executing at the same time is at most the
\* worker count.
C5_WorkerBound ==
    Cardinality(running) <= workerCount

\* one worker, a second job executing after the first has finished
C5_Witness ==
    /\ workerCount = 1
    /\ Len(heap) >= 2
    /\ spawned[1] = 1
    /\ running = {2}

\* C6: for every job received by a worker exactly one value, 0 or 1, is sent
\* on doneChan: none while the worker is still at work on the job, one once
\* it has finished with it, never two.
C6_OneCompletionSignal ==
    \A i \in DOMAIN recvLog :
        LET j == recvLog[i][2]
        IN  /\ doneVals[j] \in {<<>>, <<0>>, <<1>>}
            /\ Reported(j) <=> ~InProgress(j)

\* a blank job and a failed job, both reported
C6_Witness ==
    /\ \E j \in Jobs : heap[j].Arg = <<>> /\ doneVals[j] = <<0>>
    /\ \E j \in Jobs : j \in failed /\ doneVals[j] = <<1>>

\* C7 as stated: every job processed by a worker has exactly one message on
\* outChan, the empty command template being the only exception.
C7_OneOutputExceptEmptyTemplate ==
    \A j \in Jobs :
        (Reported(j) /\ Len(args) >= 1) => outCnt[j] = 1

\* C7 as amended: every job processed by a worker has exactly one message on
\* outChan, except on the two no-op paths, the empty command template and
\* the blank argument, which report completion and send no message.
C7_OneOutputExceptNoop ==
    \A j \in Jobs :
        /\ outCnt[j] <= 1
        /\ Reported(j) =>
            outCnt[j] = IF Len(args) < 1 \/ heap[j].Arg = <<>> THEN 0 ELSE 1

\* a blank job without a message and a failed job with its message
C7_Witness ==
    /\ \E j \in Jobs : Reported(j) /\ heap[j].Arg = <<>> /\ outCnt[j] = 0
    /\ \E j \in Jobs : Reported(j) /\ j \in failed /\ outCnt[j] = 1

\* C8: a line that is empty after trimming still gets its job, counted by the
\* Producer; the worker that receives it reports 0, starts no subprocess,
\* sends no message, and goes on to take the next job.
C8_BlankLineNoop ==
    \A j \in Jobs :
        (\A k \in DOMAIN InputLines[j] : IsSpace(InputLines[j][k])) =>
            /\ heap[j].Arg = <<>>
            /\ j <= count
            /\ ppc = "returned" => j <= totalCnt
            /\ spawned[j] = 0
            /\ outCnt[j] = 0
            /\ doneVals[j] \in {<<>>, <<0>>}
            /\ \A w \in Workers :
                (wjob[w] = j /\ Reported(j)) => wpc[w] = "recv"

\* a line of white space only, whose worker has since received the next job
C8_Witness ==
    /\ Len(recvLog) >= 2
    /\ InputLines[1] # <<>>
    /\ heap[1].Arg = <<>>
    /\ doneVals[1] = <<0>>
    /\ recvLog[1][1] = recvLog[2][1]

\* C9: a job whose subprocess fails gets one message and outcome 1; its
\* worker stays in its loop, no worker ever terminates, and every other job
\* is reported with its own outcome.
C9_FailureIsolation ==
    /\ \A w \in Workers :
        wpc[w] \in {"recv", "sendDoneBlank", "run", "sendDoneNoop", "exec",
                    "sendOut", "sendDone"}
    /\ \A j \in Jobs :
        Reported(j) =>
            /\ doneVals[j] = <<IF j \in failed THEN 1 ELSE 0>>
            /\ j \in failed => outCnt[j] = 1
            /\ \A w \in Workers : wjob[w] = j => wpc[w] = "recv"
    /\ Cardinality({i \in DOMAIN stdout : stdout[i].text = "err"})
           <= Cardinality(failed)

\* the worker of a failed job has since taken a job that succeeded
C9_Witness ==
    /\ Len(recvLog) >= 2
    /\ recvLog[1][1] = recvLog[2][1]
    /\ doneVals[1] = <<1>>
    /\ doneVals[2] = <<0>>
    /\ spawned[2] = 1

\* C10: every job created by the Producer is received by exactly one worker
\* exactly once, except the one the Producer is still waiting to hand off,
\* which has not been received; no two workers are at work on the same job.
C10_SingleConsumer ==
    /\ \A j \in Jobs :
        Cardinality({i \in DOMAIN recvLog : recvLog[i][2] = j})
            = IF ppc = "send" /\ j = rj THEN 0 ELSE 1
    /\ \A i \in DOMAIN recvLog : recvLog[i][2] \in Jobs
    /\ \A v, w \in Workers :
        (v # w /\ wpc[v] # "recv" /\ wpc[w] # "recv") => wjob[v] # wjob[w]

\* two workers at work on two jobs
C10_Witness ==
    /\ Len(recvLog) >= 2
    /\ \E v, w \in Workers :
        /\ v # w
        /\ wpc[v] = "exec"
        /\ wpc[w] = "exec"

\* C11: the substitution of run changes only the CmdData of the job of the
\* worker that runs it: the program arguments never change, no other job's
\* tokens change, and every new job starts with the tokens of the program
\* arguments, the placeholders among them.
C11_TemplateFrame ==
    [][/\ args' = args
       /\ \A j \in Jobs :
            heap'[j] # heap[j] =>
                /\ \E w \in Workers :
                    wjob[w] = j /\ wpc[w] = "run" /\ wpc'[w] = "exec"
                /\ heap'[j].Arg = heap[j].Arg
                /\ \A k \in Jobs \ {j} : heap'[k] = heap[k]
       /\ \A j \in (Len(heap) + 1)..Len(heap') : heap'[j].CmdData = args
      ]_vars

\* job 1 has been substituted, job 2 holds the placeholder
C11_Witness ==
    /\ Len(heap) >= 2
    /\ spawned[1] = 1
    /\ heap[1].CmdData # args
    /\ spawned[2] = 0
    /\ heap[2].CmdData = args
    /\ \E i \in DOMAIN args : args[i] = Placeholder

\* C12: the command of every job that was run is the template with every
\* token equal to "{}" replaced by the argument and every other token,
\* "x{}" too, unchanged.
C12_Substitution ==
    \A j \in Jobs :
        spawned[j] >= 1 =>
            /\ Len(heap[j].CmdData) = Len(args)
            /\ \A i \in DOMAIN args :
                heap[j].CmdData[i] =
                    IF args[i] = <<"{", "}">> THEN heap[j].Arg ELSE args[i]

\* a template with two placeholders, both replaced
C12_Witness ==
    /\ Len(args) = 3
    /\ \E j \in Jobs :
        /\ spawned[j] = 1
        /\ heap[j].CmdData = <<args[1], heap[j].Arg, heap[j].Arg>>

\* the number of line-feed bytes of stdin
NumLF == Cardinality({i \in DOMAIN input : input[i] = LF})

\* C13: the number of jobs created, and the value written to totalCnt at
\* end-of-input, is the number of line-feed bytes of stdin; the bytes after
\* the last line-feed give no job.
C13_JobCount ==
    /\ Len(heap) <= NumLF
    /\ ppc = "returned" =>
        /\ Len(heap) = NumLF
        /\ count = NumLF
        /\ totalCnt = NumLF

\* end-of-input after a line and an unterminated rest
C13_Witness ==
    /\ ppc = "returned"
    /\ totalCnt >= 1
    /\ input[Len(input)] # LF

\* the argument the line is to give: one trailing carriage return stripped,
\* white space trimmed at both ends
StripTrailingCR(line) ==
    IF line # <<>> /\ line[Len(line)] = CR
    THEN SubSeq(line, 1, Len(line) - 1)
    ELSE line

RECURSIVE TrimmedLeft(_)
TrimmedLeft(line) ==
    IF line # <<>> /\ Head(line) \in {SP, CR, "\t"}
    THEN TrimmedLeft(Tail(line))
    ELSE line

RECURSIVE TrimmedRight(_)
TrimmedRight(line) ==
    IF line # <<>> /\ line[Len(line)] \in {SP, CR, "\t"}
    THEN TrimmedRight(SubSeq(line, 1, Len(line) - 1))
    ELSE line

\* C14: the argument of every job is its line with one trailing carriage
\* return stripped and the white space at both ends trimmed, every other
\* byte, an interior carriage return too, kept.
C14_ArgNormalisation ==
    \A j \in Jobs :
        heap[j].Arg = TrimmedRight(TrimmedLeft(StripTrailingCR(InputLines[j])))

\* C15 as stated: doneCnt, errCnt and totalCnt change only in steps of the
\* Collector.
C15_CollectorOwnsCounters ==
    [][<<doneCnt, errCnt, totalCnt>>' # <<doneCnt, errCnt, totalCnt>>
           => cpc' # cpc
      ]_vars

\* C15 as amended: doneCnt and errCnt change only in the Collector's receive
\* on doneChan; totalCnt changes in no step of the Collector or of a Worker:
\* its only change is the Producer's write of the job count at end-of-input.
C15_CounterWriters ==
    [][/\ <<doneCnt, errCnt>>' # <<doneCnt, errCnt>> =>
            /\ cpc = "select"
            /\ cpc' = "check"
            /\ ppc' = ppc
       /\ totalCnt' # totalCnt =>
            /\ ppc = "read"
            /\ ppc' = "returned"
            /\ totalCnt = MaxInt32
            /\ totalCnt' = count
            /\ cpc' = cpc
            /\ wpc' = wpc
      ]_vars

\* the Producer has written totalCnt, the Collector has counted a failure
C15_Witness ==
    /\ ppc = "returned"
    /\ totalCnt = count
    /\ totalCnt >= 1
    /\ doneCnt >= 1
    /\ errCnt >= 1

\* C16: the jobs are received by the workers in the order of their lines:
\* the i-th receive on jobChan is of the job of the i-th line.
C16_FifoHandOff ==
    \A i \in DOMAIN recvLog :
        /\ recvLog[i][2] = i
        /\ heap[i].Arg = MakeArg(InputLines[i])

\* two jobs received in order, the second reported before the first
C16_Witness ==
    /\ Len(recvLog) >= 2
    /\ Reported(2)
    /\ ~Reported(1)

\* C17: doneCnt <= totalCnt in every state, before and after the Producer
\* writes totalCnt; doneCnt is at most the number of jobs handed to workers,
\* which is at most the number of lines.
C17_CounterBound ==
    /\ doneCnt <= totalCnt
    /\ doneCnt <= Len(recvLog)
    /\ Len(recvLog) <= NumLF

\* all of two or more jobs counted, totalCnt written
C17_Witness ==
    /\ ppc = "returned"
    /\ totalCnt >= 2
    /\ totalCnt < MaxInt32
    /\ doneCnt = totalCnt

\* C18: the message of a job is printed before its completion is counted;
\* when the Collector has terminated every message produced has been
\* printed and no worker is blocked in a send.
C18_NoLostOutput ==
    /\ \A j \in Jobs : Reported(j) => outCnt[j] = spawned[j]
    /\ Len(stdout) = Cardinality({j \in Jobs : outCnt[j] >= 1})
    /\ cpc = "done" =>
        /\ \A w \in Workers : wpc[w] = "recv"
        /\ Len(stdout) = Cardinality({j \in Jobs : spawned[j] >= 1})

\* terminated with the messages of two jobs printed
C18_Witness ==
    /\ cpc = "done"
    /\ Len(stdout) = 2

\* C19: the Producer creates a job only when the one before has been
\* received, so the jobs created and not yet reported are at most
\* workerCount + 1.
C19_Backpressure ==
    /\ Len(heap) <= Len(recvLog) + 1
    /\ Len(heap) - doneCnt <= workerCount + 1

\* two workers at work and a third job waiting for its hand-off
C19_Witness ==
    /\ workerCount = 2
    /\ ppc = "send"
    /\ Len(heap) - doneCnt = 3

\* C20: the exit status is not 0 when at least one job failed, whatever the
\* number of failures.
C20_ExitStatusNonZero ==
    (cpc = "done" /\ errCnt >= 1) => exitStatus # 0

====
